---- MODULE Spec2Model ----
(***************************************************************************)
(* Model of the compression pipeline of emage: class Process of            *)
(* src/app/menu.js (lines 377-483).                                        *)
(*                                                                         *)
(* One run of Process is modelled.  Every action is one callback of the    *)
(* JavaScript event loop (a run-to-completion block): the asynchronous     *)
(* start of Promise.map, the .then and .catch callbacks of _compressImage, *)
(* the continuation of _createJob after its await, the settlement of a job *)
(* inside Promise.map, and the callbacks _done, (missing) _error and       *)
(* _finish of the promise chain of the constructor.                        *)
(*                                                                         *)
(* Promise.map(list, fn, {concurrency: 1}) is the bluebird function (the   *)
(* native Promise has no map).  With a concurrency limit bluebird calls    *)
(* the mapper on the first element, pushes the indices of the others on a  *)
(* queue and, each time a job settles, takes the next index with           *)
(* queue.pop(), that is from the END of the queue.                         *)
(*                                                                         *)
(* The inputs of a run are the algorithm list, the size of the file, the   *)
(* outcome of each external operation (imagemin, fs.statSync) and whether  *)
(* a listener of an emitted event throws (EventEmitter.emit rethrows).     *)
(***************************************************************************)
EXTENDS Integers, Sequences, FiniteSets, TLC

\* ---- bounds -------------------------------------------------------------
MaxAlgs == 3
MaxSize == 2

\* ---- input sets ---------------------------------------------------------
\* the algorithms a run is asked for: two of the JPEG family, one of the PNG
\* family
AlgNames == {"jpegoptim", "mozjpeg", "optipng"}
Sizes == 1..MaxSize
\* errors an operation can raise: ex.code EPIPE, a "Library not loaded"
\* message naming libjpeg, any other error
ExKinds == {"EPIPE", "libjpeg", "other"}
InvalidFileName == "Invalid file name"
TypeError == "TypeError"
LibjpegHint == "You probably need to install libjpeg on your computer."

\* a media type is the sequence of the pieces of its string, so that a
\* regular expression test is a search for a contiguous subsequence
TypeJpg == <<"image/", "jpg">>
TypeJpeg == <<"image/", "jpeg">>
TypePng == <<"image/", "png">>
TypeSvg == <<"image/", "svg">>
TypeSvgXml == <<"image/", "svg", "+xml">>
TypeGif == <<"image/", "gif">>
\* file.type of the runs: a supported type and an unsupported one
RunMediaTypes == {TypeJpeg, <<"text/", "plain">>}

AlgLists == UNION {[1..n -> AlgNames] : n \in 0..MaxAlgs}

NoAlgorithm == [algorithm |-> "null", index |-> -1, length |-> -1]

VARIABLES
    fileType,            \* this.file.type
    query,               \* a call of a function or observer, with its inputs
    answer,              \* what the call returned
    algorithms,          \* this.algorithms
    originalSize,        \* this.originalSize
    size,                \* this.size
    currentAlgorithm,    \* this.currentAlgorithm
    finishedAlgorithms,  \* this.finishedAlgorithms
    finished,            \* this.finished
    failed,              \* this.failed
    errors,              \* this.errors
    queue,               \* bluebird: indices (1-based) waiting for a free slot
    totalResolved,       \* bluebird: number of jobs fulfilled
    mapState,            \* "init", "pending", "resolved", "rejected"
    job,                 \* the job in flight: [pc, index, value, ex]
    chain,               \* position in the promise chain of the constructor
    rejected,            \* the promise flowing down the chain is rejected
    emitted,             \* every event emitted so far, in order
    threw,               \* a listener of an emitted event has thrown
    outcome              \* outcome[i]: what happened to the step of algorithms[i]

vars == <<fileType, query, answer, algorithms, originalSize, size, currentAlgorithm, finishedAlgorithms,
          finished, failed, errors, queue, totalResolved, mapState, job, chain,
          rejected, emitted, threw, outcome>>

runVars == <<fileType, query, answer, algorithms, originalSize>>

NoJob == [pc |-> "none", index |-> 0, value |-> 0, ex |-> "none"]

\* what the run did with the step of algorithms[i]: its status ("none",
\* "started", "ok", "failed"), the fields as they were when it started, the
\* size it measured, and whether _createJob ran to its last statement
NoOutcome == [status |-> "none", before |-> 0, after |-> 0, ended |-> FALSE,
              finishedBefore |-> <<>>, errorsBefore |-> <<>>]

\* ---- EventEmitter -------------------------------------------------------
Event(name, cur, sz, ex) == [name |-> name, cur |-> cur, size |-> sz, ex |-> ex]

\* ---- helpers ------------------------------------------------------------
Front(s) == SubSeq(s, 1, Len(s) - 1)
Last(s) == s[Len(s)]

\* RegExp.test of a literal pattern: the pattern occurs somewhere in str
Test(pattern, str) ==
    \E k \in 0..(Len(str) - Len(pattern)) :
        SubSeq(str, k + 1, k + Len(pattern)) = pattern

\* ---- Engine Selector ----------------------------------------------------
\* an operation is the imagemin plugin with its fixed options
Plugin(name, options) == [plugin |-> name, options |-> options]
Null == Plugin("null", "")
Undefined == Plugin("undefined", "")
IsOperation(plugin) == plugin \notin {Null, Undefined}

engineJpg(algorithm) ==
    CASE algorithm = "jpegoptim" ->
             Plugin("imageminJpegoptim", "progressive: false")
      [] algorithm = "jpegtran" ->
             Plugin("imageminJpegtran", "progressive: true")
      [] algorithm = "mozjpeg" -> Plugin("imageminMozjpeg", "quality: 90")
      [] OTHER -> Null

\* mutant: the zopfli case is missing
enginePngWithoutZopfli(algorithm) ==
    CASE algorithm = "advpng" ->
             Plugin("imageminAdvpng", "optimizationLevel: 4")
      [] algorithm = "optipng" -> Plugin("imageminOptipng", "")
      [] algorithm = "pngcrush" -> Plugin("imageminPngcrush", "reduce: true")
      [] algorithm = "pngout" -> Plugin("imageminPngout", "")
      [] OTHER -> Null

enginePng(algorithm) ==
    CASE algorithm = "advpng" ->
             Plugin("imageminAdvpng", "optimizationLevel: 4")
      [] algorithm = "optipng" -> Plugin("imageminOptipng", "")
      [] algorithm = "pngcrush" -> Plugin("imageminPngcrush", "reduce: true")
      [] algorithm = "pngout" -> Plugin("imageminPngout", "")
      [] algorithm = "zopfli" ->
             Plugin("imageminZopfli", "transparent: true")
      [] OTHER -> Null

engineSvg(algorithm) ==
    CASE algorithm = "svgo" -> Plugin("imageminSvgo", "")
      [] OTHER -> Null

engineGif(algorithm) ==
    CASE algorithm = "giflossy" ->
             Plugin("imageminGiflossy",
                    "interlaced: true, optimizationLevel: 3, optimize: 3")
      [] algorithm = "gifsicle" ->
             Plugin("imageminGifsicle",
                    "interlaced: true, optimizationLevel: 3")
      [] OTHER -> Null

getPlugin(type, algorithm) ==
    IF Test(TypeJpg, type) \/ Test(TypeJpeg, type) THEN engineJpg(algorithm)
    ELSE IF Test(TypePng, type) THEN enginePng(algorithm)
    ELSE IF Test(TypeSvg, type) \/ Test(TypeSvgXml, type)
         THEN engineSvg(algorithm)
    ELSE IF Test(TypeGif, type) THEN engineGif(algorithm)
    ELSE Undefined

\* ---- calls from outside the run ------------------------------------------
\* the inputs of one call of getPlugin, of the constructor, of getSave, or
\* of an observer whose returned value the caller then mutates
NoQuery == [kind |-> "none", fileType |-> <<>>, algorithm |-> "",
            path |-> <<>>, keepSource |-> TRUE, copyThrows |-> FALSE,
            size |-> 0, originalSize |-> 0, observer |-> ""]
NoAnswer == [done |-> FALSE, value |-> 0]
Answer(v) == [done |-> TRUE, value |-> v]

\* ---- constructor --------------------------------------------------------
\* the fields as the constructor leaves them, for a file of the given size
\* and type and the given list
Constructed(type, fileSize, algs) ==
    /\ fileType = type
    /\ algorithms = algs
    /\ originalSize = fileSize
    /\ size = fileSize
    /\ currentAlgorithm = NoAlgorithm
    /\ finishedAlgorithms = <<>>
    /\ finished = FALSE
    /\ failed = FALSE
    /\ errors = <<>>
    /\ queue = <<>>
    /\ totalResolved = 0
    /\ mapState = "init"
    /\ job = NoJob
    /\ chain = "then"
    /\ rejected = FALSE
    /\ emitted = <<>>
    /\ threw = FALSE
    /\ outcome = [i \in 1..Len(algs) |-> NoOutcome]

Init ==
    /\ \E type \in RunMediaTypes : \E fileSize \in Sizes : \E algs \in AlgLists :
          Constructed(type, fileSize, algs)
    /\ query = NoQuery
    /\ answer = NoAnswer

\* isLibjpegNotFound: ex.code matches EPIPE or the message names libjpeg
isLibjpegNotFound(ex) == ex \in {"EPIPE", "libjpeg"}

\* the message stored by the .catch callback of _compressImage
ErrorMessage(algorithm, ex) ==
    IF algorithm = "jpegoptim" /\ isLibjpegNotFound(ex)
    THEN LibjpegHint
    ELSE ex

\* ---- _createJob, up to its await ----------------------------------------
\* this.currentAlgorithm = {algorithm, index, length}; emit('start', ...);
\* then _compressImage starts the external operation.  A throwing listener
\* makes the async function return a rejected promise.
StartJob(i, throws) ==
    /\ currentAlgorithm' = [algorithm |-> algorithms[i], index |-> i - 1,
                            length |-> Len(algorithms)]
    /\ emitted' = Append(emitted, Event("start", currentAlgorithm', -1, "none"))
    /\ job' = [pc |-> IF throws THEN "rejected" ELSE "imagemin",
               index |-> i, value |-> 0, ex |-> "none"]
    /\ threw' = (threw \/ throws)
    /\ outcome' = [outcome EXCEPT ![i] =
           [status |-> "started", before |-> size, after |-> 0,
            ended |-> FALSE, finishedBefore |-> finishedAlgorithms,
            errorsBefore |-> errors]]

\* ---- Promise.map: asynchronous start ------------------------------------
\* bluebird iterates the list: the mapper is called on the first element,
\* the other indices are queued in list order; an empty list resolves.
InitialQueue(n) == [k \in 1..(n - 1) |-> k + 1]

\* mutant: a sequencer that resolves only when a job completes, so that an
\* empty list never resolves
MapInitEmptyNeverResolves ==
    /\ mapState = "init"
    /\ Len(algorithms) > 0
    /\ mapState' = "pending"
    /\ queue' = InitialQueue(Len(algorithms))
    /\ \E throws \in BOOLEAN : StartJob(1, throws)
    /\ UNCHANGED <<runVars, size, finishedAlgorithms, finished, failed, errors,
                   totalResolved, chain, rejected>>

MapInit ==
    /\ mapState = "init"
    /\ IF Len(algorithms) = 0
       THEN /\ mapState' = "resolved"
            /\ UNCHANGED <<currentAlgorithm, emitted, job, queue, threw,
                           outcome>>
       ELSE /\ mapState' = "pending"
            /\ queue' = InitialQueue(Len(algorithms))
            /\ \E throws \in BOOLEAN : StartJob(1, throws)
    /\ UNCHANGED <<runVars, size, finishedAlgorithms, finished, failed, errors,
                   totalResolved, chain, rejected>>

\* ---- _compressImage: imagemin settles, .then callback -------------------
\* resolved with a file: fs.statSync(this.path).size, which may throw;
\* resolved without a file: throw Error(Invalid file name);
\* rejected: the callback is skipped and the error goes to .catch.
\* When getPlugin found no operation, plugins is [null] or [undefined]:
\* imagemin calls the plugin, which is not a function, and rejects with a
\* TypeError.
\* mutant: plugins is left empty when there is no operation, so that
\* imagemin resolves and leaves the file as it is
CompressThenSkipsMissingPlugin ==
    /\ job.pc = "imagemin"
    /\ IF IsOperation(getPlugin(fileType, algorithms[job.index]))
       THEN \/ \E s \in Sizes :
                 /\ job' = [job EXCEPT !.pc = "await", !.value = s]
                 /\ outcome' = [outcome EXCEPT ![job.index].status = "ok",
                                               ![job.index].after = s]
            \/ /\ \E ex \in ExKinds \cup {InvalidFileName} :
                     job' = [job EXCEPT !.pc = "catch", !.ex = ex]
               /\ UNCHANGED outcome
       ELSE /\ job' = [job EXCEPT !.pc = "await", !.value = size]
            /\ outcome' = [outcome EXCEPT ![job.index].status = "ok",
                                          ![job.index].after = size]
    /\ UNCHANGED <<runVars, size, currentAlgorithm, finishedAlgorithms,
                   finished, failed, errors, queue, totalResolved, mapState,
                   chain, rejected, emitted, threw>>

CompressThen ==
    /\ job.pc = "imagemin"
    /\ IF IsOperation(getPlugin(fileType, algorithms[job.index]))
       THEN \/ \E s \in Sizes :
                 /\ job' = [job EXCEPT !.pc = "await", !.value = s]
                 /\ outcome' = [outcome EXCEPT ![job.index].status = "ok",
                                               ![job.index].after = s]
            \/ /\ \E ex \in ExKinds \cup {InvalidFileName} :
                     job' = [job EXCEPT !.pc = "catch", !.ex = ex]
               /\ UNCHANGED outcome
       ELSE /\ job' = [job EXCEPT !.pc = "catch", !.ex = TypeError]
            /\ UNCHANGED outcome
    /\ UNCHANGED <<runVars, size, currentAlgorithm, finishedAlgorithms,
                   finished, failed, errors, queue, totalResolved, mapState,
                   chain, rejected, emitted, threw>>

\* ---- _failed ------------------------------------------------------------
\* mutant: the event is emitted only when the flag was not yet set
FailedOnlyFirst(ex) ==
    /\ failed' = TRUE
    /\ emitted' = IF failed THEN emitted
                  ELSE Append(emitted, Event("failed", NoAlgorithm, -1, ex))

\* mutant: _failed emits the event but does not set the flag
FailedNoFlag(ex) ==
    /\ failed' = failed
    /\ emitted' = Append(emitted, Event("failed", NoAlgorithm, -1, ex))

Failed(ex) ==
    /\ failed' = TRUE
    /\ emitted' = Append(emitted, Event("failed", NoAlgorithm, -1, ex))

\* ---- _compressImage: .catch callback ------------------------------------
\* pushes {algorithm, message}, calls _failed, returns this.size
\* mutant: the callback does not record the error
CompressCatchNoRecord ==
    /\ job.pc = "catch"
    /\ errors' = errors
    /\ Failed(job.ex)
    /\ \E throws \in BOOLEAN :
          /\ job' = [job EXCEPT !.pc = IF throws THEN "rejected" ELSE "await",
                                !.value = size]
          /\ threw' = (threw \/ throws)
    /\ outcome' = [outcome EXCEPT ![job.index].status = "failed",
                                  ![job.index].after = size]
    /\ UNCHANGED <<runVars, size, currentAlgorithm, finishedAlgorithms,
                   finished, queue, totalResolved, mapState, chain, rejected>>

\* mutant: the callback records the error and rethrows it
CompressCatchRethrows ==
    /\ job.pc = "catch"
    /\ errors' = Append(errors,
           [algorithm |-> algorithms[job.index],
            message |-> ErrorMessage(algorithms[job.index], job.ex)])
    /\ Failed(job.ex)
    /\ \E throws \in BOOLEAN :
          /\ job' = [job EXCEPT !.pc = "rejected", !.value = size]
          /\ threw' = (threw \/ throws)
    /\ outcome' = [outcome EXCEPT ![job.index].status = "failed",
                                  ![job.index].after = size]
    /\ UNCHANGED <<runVars, size, currentAlgorithm, finishedAlgorithms,
                   finished, queue, totalResolved, mapState, chain, rejected>>

CompressCatch ==
    /\ job.pc = "catch"
    /\ errors' = Append(errors,
           [algorithm |-> algorithms[job.index],
            message |-> ErrorMessage(algorithms[job.index], job.ex)])
    /\ Failed(job.ex)
    /\ \E throws \in BOOLEAN :
          /\ job' = [job EXCEPT !.pc = IF throws THEN "rejected" ELSE "await",
                                !.value = size]
          /\ threw' = (threw \/ throws)
    /\ outcome' = [outcome EXCEPT ![job.index].status = "failed",
                                  ![job.index].after = size]
    /\ UNCHANGED <<runVars, size, currentAlgorithm, finishedAlgorithms,
                   finished, queue, totalResolved, mapState, chain, rejected>>

\* ---- _createJob, after its await ----------------------------------------
\* mutant: the algorithm is pushed without comparing the sizes
CreateJobResumeAlwaysPushes ==
    /\ job.pc = "await"
    /\ LET newSize == job.value IN
       /\ finishedAlgorithms' =
              Append(finishedAlgorithms, algorithms[job.index])
       /\ size' = newSize
       /\ emitted' = Append(emitted,
                            Event("end", currentAlgorithm, newSize, "none"))
    /\ \E throws \in BOOLEAN :
          /\ job' = [job EXCEPT !.pc = IF throws THEN "rejected"
                                       ELSE "fulfilled"]
          /\ threw' = (threw \/ throws)
    /\ outcome' = [outcome EXCEPT ![job.index].ended = TRUE]
    /\ UNCHANGED <<runVars, currentAlgorithm, finished, failed, errors, queue,
                   totalResolved, mapState, chain, rejected>>

CreateJobResume ==
    /\ job.pc = "await"
    /\ LET newSize == job.value IN
       /\ finishedAlgorithms' =
              IF size # newSize
              THEN Append(finishedAlgorithms, algorithms[job.index])
              ELSE finishedAlgorithms
       /\ size' = newSize
       /\ emitted' = Append(emitted, Event("end", currentAlgorithm, newSize, "none"))
    /\ \E throws \in BOOLEAN :
          /\ job' = [job EXCEPT !.pc = IF throws THEN "rejected"
                                       ELSE "fulfilled"]
          /\ threw' = (threw \/ throws)
    /\ outcome' = [outcome EXCEPT ![job.index].ended = TRUE]
    /\ UNCHANGED <<runVars, currentAlgorithm, finished, failed, errors, queue,
                   totalResolved, mapState, chain, rejected>>

\* ---- Promise.map: a job fulfils -----------------------------------------
\* the slot is freed and the queue drained: queue.pop() takes the LAST
\* queued index and the mapper is called on it; when every job has
\* fulfilled the map resolves.
NextQueued(q) == Last(q)
RestQueued(q) == Front(q)

MapJobFulfilled ==
    /\ job.pc = "fulfilled"
    /\ totalResolved' = totalResolved + 1
    /\ IF Len(queue) > 0
       THEN /\ queue' = RestQueued(queue)
            /\ \E throws \in BOOLEAN : StartJob(NextQueued(queue), throws)
            /\ UNCHANGED mapState
       ELSE /\ job' = NoJob
            /\ mapState' = IF totalResolved' >= Len(algorithms)
                           THEN "resolved" ELSE mapState
            /\ UNCHANGED <<queue, currentAlgorithm, emitted, threw, outcome>>
    /\ UNCHANGED <<runVars, size, finishedAlgorithms, finished, failed, errors,
                   chain, rejected>>

\* ---- Promise.map: a job rejects -----------------------------------------
\* the map rejects at once; the queued indices are never started
\* mutant: the map rejects but goes on draining its queue
MapJobRejectedKeepsDraining ==
    /\ job.pc = "rejected"
    /\ mapState' = "rejected"
    /\ rejected' = TRUE
    /\ IF Len(queue) > 0
       THEN /\ queue' = RestQueued(queue)
            /\ \E throws \in BOOLEAN : StartJob(NextQueued(queue), throws)
       ELSE /\ job' = NoJob
            /\ UNCHANGED <<queue, currentAlgorithm, emitted, threw, outcome>>
    /\ UNCHANGED <<runVars, size, finishedAlgorithms, finished, failed, errors,
                   totalResolved, chain>>

MapJobRejected ==
    /\ job.pc = "rejected"
    /\ job' = NoJob
    /\ mapState' = "rejected"
    /\ rejected' = TRUE
    /\ UNCHANGED <<runVars, size, currentAlgorithm, finishedAlgorithms,
                   finished, failed, errors, queue, totalResolved, chain,
                   emitted, threw, outcome>>

\* ---- .then(this._done) --------------------------------------------------
Done ==
    /\ chain = "then"
    /\ mapState = "resolved"
    /\ emitted' = Append(emitted, Event("done", NoAlgorithm, size, "none"))
    /\ \E throws \in BOOLEAN : rejected' = throws /\ threw' = (threw \/ throws)
    /\ chain' = "catch"
    /\ UNCHANGED <<runVars, size, currentAlgorithm, finishedAlgorithms,
                   finished, failed, errors, queue, totalResolved, mapState,
                   job, outcome>>

\* ---- .catch(this._error) ------------------------------------------------
\* the class defines no _error: .catch(undefined) registers no handler, a
\* rejection (of the map or of _done) passes through unchanged
Error ==
    /\ \/ chain = "catch"
       \/ chain = "then" /\ mapState = "rejected"
    /\ chain' = "finally"
    /\ UNCHANGED <<runVars, size, currentAlgorithm, finishedAlgorithms,
                   finished, failed, errors, queue, totalResolved, mapState,
                   job, rejected, emitted, threw, outcome>>

\* ---- .finally(this._finish) ---------------------------------------------
\* mutant: _finish chained with .then instead of .finally
FinishUnlessRejected ==
    /\ chain = "finally"
    /\ ~rejected
    /\ finished' = TRUE
    /\ emitted' = Append(emitted, Event("finish", NoAlgorithm, -1, "none"))
    /\ \E throws \in BOOLEAN :
          rejected' = (rejected \/ throws) /\ threw' = (threw \/ throws)
    /\ chain' = "end"
    /\ UNCHANGED <<runVars, size, currentAlgorithm, finishedAlgorithms,
                   failed, errors, queue, totalResolved, mapState, job,
                   outcome>>

Finish ==
    /\ chain = "finally"
    /\ finished' = TRUE
    /\ emitted' = Append(emitted, Event("finish", NoAlgorithm, -1, "none"))
    /\ \E throws \in BOOLEAN :
          rejected' = (rejected \/ throws) /\ threw' = (threw \/ throws)
    /\ chain' = "end"
    /\ UNCHANGED <<runVars, size, currentAlgorithm, finishedAlgorithms,
                   failed, errors, queue, totalResolved, mapState, job,
                   outcome>>

Next ==
    \/ MapInit
    \/ CompressThen
    \/ CompressCatch
    \/ CreateJobResume
    \/ MapJobFulfilled
    \/ MapJobRejected
    \/ Done
    \/ Error
    \/ Finish

Spec == Init /\ [][Next]_vars

\* the event loop runs every callback that is ready, and every external
\* operation settles
FairSpec == Spec /\ WF_vars(Next)

\* ---- observers ----------------------------------------------------------
\* {...null} is an object without properties
EmptyObject == [algorithm |-> "undefined", index |-> -1, length |-> -1]

getAlgorithms == algorithms
getCurrentAlgorithm ==
    IF currentAlgorithm = NoAlgorithm THEN EmptyObject ELSE currentAlgorithm
getErrors == errors
getFinishedAlgorithms == finishedAlgorithms

\* a JavaScript number that is a ratio of integers, or NaN or an infinity
Number(num, den) == [kind |-> "finite", num |-> num, den |-> den]
NaN == [kind |-> "NaN", num |-> 0, den |-> 1]
MinusInfinity == [kind |-> "-Infinity", num |-> 0, den |-> 1]
SameNumber(x, y) ==
    /\ x.kind = y.kind
    /\ x.kind = "finite" => x.num * y.den = y.num * x.den

\* 100 - ((size / originalSize) * 100), rounding apart: 0 / 0 is NaN and
\* a positive size over 0 is Infinity
SaveOf(sz, original) ==
    IF original = 0
    THEN IF sz = 0 THEN NaN ELSE MinusInfinity
    ELSE LET ratio == Number(sz, original)
             percent == Number(ratio.num * 100, ratio.den)
         IN Number(100 * percent.den - percent.num, percent.den)

getSave == SaveOf(size, originalSize)

\* ---- paths --------------------------------------------------------------
\* a path is the sequence of the pieces of its string: separators, names
\* and extensions
Extensions == {".png", ".jpg"}
SourcePaths ==
    { <<"/", "d", "/", "x", ".png">>,
      <<"/", "x", ".jpg">>,
      <<"/", "a", ".png", "/", "b", ".png">>,
      <<"/", "d", "/", "x">>,
      <<"/", "d", "/", ".png">> }

LastSeparator(path) ==
    LET seps == {k \in 1..Len(path) : path[k] = "/"}
    IN IF seps = {} THEN 0 ELSE CHOOSE k \in seps : \A j \in seps : j <= k

\* path.basename
basename(path) == SubSeq(path, LastSeparator(path) + 1, Len(path))

\* path.extname: the extension of the base name, none for a name that is
\* only an extension
extname(path) ==
    LET base == basename(path)
    IN IF Len(base) >= 2 /\ Last(base) \in Extensions THEN Last(base) ELSE ""

\* path.resolve(path, '..')
Dir(path) == SubSeq(path, 1, LastSeparator(path) - 1)

\* String.replace(pattern, replacement) with a string pattern: the FIRST
\* occurrence is replaced; the empty pattern occurs at the start
StringReplace(str, pattern, replacement) ==
    IF pattern = "" THEN replacement \o str
    ELSE LET hits == {k \in 1..Len(str) : str[k] = pattern}
         IN IF hits = {} THEN str
            ELSE LET k == CHOOSE h \in hits : \A j \in hits : h <= j
                 IN SubSeq(str, 1, k - 1) \o replacement
                      \o SubSeq(str, k + 1, Len(str))

\* _copySourceImage: the path the copy is written to
CopyPath(path) ==
    LET fileExtension == extname(path)
    IN StringReplace(path, fileExtension,
           IF fileExtension = "" THEN <<" (1)">>
           ELSE <<" (1)", fileExtension>>)

\* _getPath
getPath(path, keepSource) == IF keepSource THEN path ELSE CopyPath(path)

\* imagemin(input, output, ...) writes to path.join(output, basename(input))
Destination(input, output) == output \o <<"/">> \o basename(input)

\* new Process(file, algorithms, keepSource): fs.copyFileSync may throw, and
\* the constructor has no try: the exception reaches the caller and no
\* field after this.path is set, no step is started
Construct(path, keepSource, copyThrows) ==
    IF ~keepSource /\ copyThrows
    THEN [threw |-> TRUE, path |-> <<>>, dir |-> <<>>, written |-> <<>>,
          failed |-> FALSE, errors |-> <<>>, started |-> FALSE]
    ELSE [threw |-> FALSE,
          path |-> getPath(path, keepSource),
          dir |-> Dir(path),
          written |-> Destination(getPath(path, keepSource), Dir(path)),
          failed |-> FALSE, errors |-> <<>>, started |-> TRUE]

\* ---- the calls ----------------------------------------------------------
MaxQuerySize == 3
AllMediaTypes ==
    {TypeJpg, TypeJpeg, TypePng, TypeSvg, TypeSvgXml, TypeGif,
     <<"image/", "webp">>, <<"text/", "plain">>, <<"IMAGE/", "PNG">>,
     <<"image/", "x-", "png">>}
AllAlgorithms ==
    {"jpegoptim", "jpegtran", "mozjpeg", "advpng", "optipng", "pngcrush",
     "pngout", "zopfli", "svgo", "giflossy", "gifsicle", "guetzli"}
Observers ==
    {"getAlgorithms", "getCurrentAlgorithm", "getErrors",
     "getFinishedAlgorithms"}

Queries ==
    {[NoQuery EXCEPT !.kind = "getPlugin", !.fileType = t, !.algorithm = a] :
        t \in AllMediaTypes, a \in AllAlgorithms}
    \cup
    {[NoQuery EXCEPT !.kind = "construct", !.path = p, !.keepSource = k,
                     !.copyThrows = c] :
        p \in SourcePaths, k \in BOOLEAN, c \in BOOLEAN}
    \cup
    {[NoQuery EXCEPT !.kind = "getSave", !.size = sz, !.originalSize = o] :
        sz \in 0..MaxQuerySize, o \in 0..MaxQuerySize}
    \cup
    {[NoQuery EXCEPT !.kind = "mutate", !.observer = o] : o \in Observers}

\* a run just constructed, and one call made on it or beside it
ApiInit ==
    /\ Constructed(TypeJpeg, 1, <<"jpegoptim">>)
    /\ query \in Queries
    /\ answer = NoAnswer

runState == <<fileType, algorithms, originalSize, size, currentAlgorithm,
              finishedAlgorithms, finished, failed, queue, totalResolved,
              mapState, job, chain, rejected, emitted, threw, outcome>>

GetPluginCall ==
    /\ query.kind = "getPlugin"
    /\ ~answer.done
    /\ answer' = Answer(getPlugin(query.fileType, query.algorithm))
    /\ UNCHANGED <<query, runState, errors>>

ConstructCall ==
    /\ query.kind = "construct"
    /\ ~answer.done
    /\ answer' = Answer(Construct(query.path, query.keepSource,
                                  query.copyThrows))
    /\ UNCHANGED <<query, runState, errors>>

GetSaveCall ==
    /\ query.kind = "getSave"
    /\ ~answer.done
    /\ answer' = Answer(SaveOf(query.size, query.originalSize))
    /\ UNCHANGED <<query, runState, errors>>

\* what the caller holds after calling an observer: getAlgorithms,
\* getCurrentAlgorithm and getFinishedAlgorithms build a new array or
\* object, getErrors returns this.errors itself
ReturnsCopy(observer) == observer # "getErrors"

JunkError == [algorithm |-> "junk", message |-> "junk"]

\* the caller calls an observer and pushes onto (or writes into) the value
\* it got; a value that is the internal array changes the run
CallerMutates ==
    /\ query.kind = "mutate"
    /\ ~answer.done
    /\ answer' = Answer(query.observer)
    /\ errors' = IF ReturnsCopy(query.observer)
                 THEN errors
                 ELSE Append(errors, JunkError)
    /\ UNCHANGED <<query, runState>>

ApiNext ==
    \/ GetPluginCall
    \/ ConstructCall
    \/ GetSaveCall
    \/ CallerMutates

ApiSpec == ApiInit /\ [][ApiNext]_vars

\* ---- reading the event log ----------------------------------------------
EventIdx(name) == {k \in 1..Len(emitted) : emitted[k].name = name}
Count(name) == Cardinality(EventIdx(name))
Starts == SelectSeq(emitted, LAMBDA e : e.name = "start")
\* the steps in the order the run started them (1-based positions of the list)
ExecOrder == [k \in 1..Len(Starts) |-> Starts[k].cur.index + 1]
StepOf(i) == [algorithm |-> algorithms[i], index |-> i - 1,
              length |-> Len(algorithms)]
NamesOf(idx) == [k \in 1..Len(idx) |-> algorithms[idx[k]]]

RECURSIVE IsSubsequence(_, _)
IsSubsequence(s, t) ==
    IF Len(s) = 0 THEN TRUE
    ELSE IF Len(t) = 0 THEN FALSE
    ELSE IF Head(s) = Head(t) THEN IsSubsequence(Tail(s), Tail(t))
    ELSE IsSubsequence(s, Tail(t))

\* ---- C1 -----------------------------------------------------------------
\* C1: in every run, also one cut short by a throwing listener, the finish
\* event is emitted exactly once and finished is set to true (and stays
\* so); a done event, if any, precedes the finish event.
C1_FinishExactlyOnce ==
    /\ <>[](finished /\ Count("finish") = 1)
    /\ [](Count("finish") <= 1)
    /\ [](finished <=> Count("finish") = 1)
    /\ [](\A d \in EventIdx("done") : \A f \in EventIdx("finish") : d < f)

\* a run cut short by a listener that threw, steps still queued, has finished
C1_Witness ==
    /\ finished
    /\ Count("finish") = 1
    /\ mapState = "rejected"
    /\ Len(queue) > 0

\* ---- C2 -----------------------------------------------------------------
\* C2: the start events are emitted in list order, with indices 0,1,...,n-1,
\* and a step starts only after the end event of the step before it: never
\* two steps in flight.
C2_StartsInListOrder ==
    /\ \A k \in 1..Len(Starts) : Starts[k].cur.index = k - 1
    /\ \A k \in 1..Len(emitted) :
          LET started == Cardinality({j \in 1..k : emitted[j].name = "start"})
              ended == Cardinality({j \in 1..k : emitted[j].name = "end"})
          IN started - ended \in {0, 1}

\* ---- C3 -----------------------------------------------------------------
\* C3: whatever the outcome (success or failure) of the operations, a run in
\* which no listener throws emits, for every algorithm of the list, a start
\* event and then an end event, and emits done after all of them.
C3_FailedStepDoesNotAbort ==
    (chain = "end" /\ ~threw) =>
        /\ Count("done") = 1
        /\ \A i \in 1..Len(algorithms) :
              \E b \in EventIdx("start") : \E e \in EventIdx("end") :
                 /\ emitted[b].cur = StepOf(i)
                 /\ emitted[e].cur = StepOf(i)
                 /\ b < e
                 /\ \A d \in EventIdx("done") : e < d

\* a complete run whose first step failed and that has a later step
C3_Witness ==
    /\ chain = "end"
    /\ ~threw
    /\ Len(algorithms) >= 2
    /\ outcome[1].status = "failed"
    /\ Count("done") = 1

\* ---- C4 -----------------------------------------------------------------
\* C4: in every reachable state size <= originalSize.
C4_SizeNeverAboveOriginal == size <= originalSize

\* ---- C5 -----------------------------------------------------------------
\* C5: a failing step appends its record to errors, sets failed, leaves
\* size and finishedAlgorithms as they were when the step started, and its
\* end event is emitted with that same size.
C5_FailingStepFrame ==
    /\ (job.pc \in {"await", "fulfilled", "rejected"}
        /\ outcome[job.index].status = "failed") =>
          LET o == outcome[job.index] IN
          /\ Len(errors) = Len(o.errorsBefore) + 1
          /\ Front(errors) = o.errorsBefore
          /\ Last(errors).algorithm = algorithms[job.index]
          /\ failed
          /\ size = o.before
          /\ finishedAlgorithms = o.finishedBefore
    /\ \A i \in 1..Len(algorithms) :
          (outcome[i].status = "failed"
           /\ (outcome[i].ended \/ (chain = "end" /\ ~threw))) =>
             \E e \in EventIdx("end") :
                /\ emitted[e].cur = StepOf(i)
                /\ emitted[e].size = outcome[i].before

\* a step that failed after an earlier step shrank the file has ended
C5_Witness ==
    /\ job.pc = "fulfilled"
    /\ outcome[job.index].status = "failed"
    /\ outcome[job.index].ended
    /\ Len(finishedAlgorithms) > 0
    /\ size < originalSize

\* ---- C6 -----------------------------------------------------------------
\* C6: once finished is true it stays true, no field of the run changes and
\* no further event is emitted.
C6_NothingAfterFinish ==
    [][finished => /\ finished'
                   /\ UNCHANGED <<size, currentAlgorithm, finishedAlgorithms,
                                  errors, failed, emitted>>]_vars

\* a finished run that had both a recorded and a failed step
C6_Witness ==
    /\ finished
    /\ chain = "end"
    /\ failed
    /\ Len(finishedAlgorithms) > 0

\* ---- C7 -----------------------------------------------------------------
\* C7: a run in which every algorithm of the (non-empty) list failed ends
\* with failed = true, as many errors as algorithms, no recorded algorithm
\* and the original size.
EveryStepFailed ==
    /\ Len(algorithms) > 0
    /\ \A i \in 1..Len(algorithms) : outcome[i].status = "failed"

C7_AllFail ==
    (chain = "end" /\ EveryStepFailed) =>
        /\ failed
        /\ Len(errors) = Len(algorithms)
        /\ finishedAlgorithms = <<>>
        /\ size = originalSize

C7_Witness ==
    /\ chain = "end"
    /\ EveryStepFailed
    /\ Len(algorithms) >= 2
    /\ Len(errors) = Len(algorithms)

\* ---- C8 -----------------------------------------------------------------
\* C8: finishedAlgorithms holds exactly the algorithms whose step succeeded
\* and reduced the byte size, in the order the steps ran.
Reduced(i) ==
    /\ outcome[i].status = "ok"
    /\ outcome[i].ended
    /\ outcome[i].after < outcome[i].before

C8_RecordedIffReduced ==
    finishedAlgorithms = NamesOf(SelectSeq(ExecOrder, Reduced))

\* ---- C9 -----------------------------------------------------------------
\* C9: finishedAlgorithms is a subsequence of algorithms, order preserved.
C9_FinishedIsSubsequence == IsSubsequence(finishedAlgorithms, algorithms)

\* ---- C10 ----------------------------------------------------------------
\* C10: with an empty list no start, end or failed event is emitted; done
\* is emitted with the original size, then finish; no error, failed false.
EmptyListEvents ==
    (Len(algorithms) = 0) =>
        /\ Count("start") = 0 /\ Count("end") = 0 /\ Count("failed") = 0
        /\ errors = <<>>
        /\ ~failed
        /\ chain \in {"catch", "finally"} =>
              emitted = <<Event("done", NoAlgorithm, originalSize, "none")>>
        /\ chain = "end" =>
              emitted = <<Event("done", NoAlgorithm, originalSize, "none"),
                          Event("finish", NoAlgorithm, -1, "none")>>

C10_EmptyList ==
    /\ []EmptyListEvents
    /\ (Len(algorithms) = 0) => <>(chain = "end")

C10_Witness ==
    /\ Len(algorithms) = 0
    /\ chain = "end"
    /\ Len(emitted) = 2

\* ---- C11 ----------------------------------------------------------------
\* C11: a step for which getPlugin finds no operation never succeeds: it
\* adds exactly one entry to errors and sets failed, and the run goes on:
\* when no listener throws every algorithm of the list is executed.
MissingPlugin(i) == ~IsOperation(getPlugin(fileType, algorithms[i]))

C11_MissingOperationFails ==
    /\ \A i \in 1..Len(algorithms) :
          MissingPlugin(i) => outcome[i].status \in {"none", "started", "failed"}
    /\ (job.pc \in {"await", "fulfilled"} /\ MissingPlugin(job.index)) =>
          /\ outcome[job.index].status = "failed"
          /\ Len(errors) = Len(outcome[job.index].errorsBefore) + 1
          /\ Front(errors) = outcome[job.index].errorsBefore
          /\ Last(errors).algorithm = algorithms[job.index]
          /\ failed
    /\ (chain = "end" /\ ~threw) =>
          \A i \in 1..Len(algorithms) :
             /\ outcome[i].ended
             /\ MissingPlugin(i) => outcome[i].status = "failed"

\* a complete run of a JPEG file whose first step had no operation and in
\* which another step succeeded
C11_Witness ==
    /\ chain = "end"
    /\ ~threw
    /\ Len(algorithms) >= 2
    /\ fileType = TypeJpeg
    /\ MissingPlugin(1)
    /\ outcome[1].status = "failed"
    /\ \E i \in 2..Len(algorithms) : outcome[i].status = "ok"

\* ---- C12 ----------------------------------------------------------------
FailedEvents == SelectSeq(emitted, LAMBDA e : e.name = "failed")

\* C12 as stated: the failed event is emitted on the first failing step only,
\* never again for a later failing step, and not at all without a failure.
C12_FailedEventOnlyOnce ==
    /\ Len(errors) = 0 => Len(FailedEvents) = 0
    /\ Len(errors) >= 1 => Len(FailedEvents) = 1

\* C12 amended: the failed event is emitted once for EVERY failing step, the
\* first and the later ones, each time with the error of that step; a run
\* without a failing step emits no failed event.
C12_FailedEventPerFailingStep ==
    /\ Len(FailedEvents) = Len(errors)
    /\ failed <=> Len(FailedEvents) > 0
    /\ \A k \in 1..Len(FailedEvents) :
          errors[k].message =
              ErrorMessage(errors[k].algorithm, FailedEvents[k].ex)
    /\ (job.pc \in {"await", "fulfilled", "rejected"}
        /\ outcome[job.index].status = "failed") =>
          Last(FailedEvents).ex = job.ex

\* two steps of one run have failed
C12_Witness ==
    /\ Len(FailedEvents) = 2
    /\ Len(errors) = 2
    /\ chain = "end"

\* ---- C13 ----------------------------------------------------------------
\* C13: no failure of a run escapes as an unhandled promise rejection: past
\* its .catch the promise chain of the constructor is never rejected.
C13_NothingEscapes == (chain \in {"finally", "end"}) => ~rejected

\* ---- C14 ----------------------------------------------------------------
\* C14: after the caller has mutated the value an observer returned, every
\* observer still returns what it returned before.
C14_ObserversReturnCopies ==
    (query.kind = "mutate" /\ answer.done) =>
        /\ getAlgorithms = <<"jpegoptim">>
        /\ getCurrentAlgorithm = EmptyObject
        /\ getErrors = <<>>
        /\ getFinishedAlgorithms = <<>>

\* ---- C15 ----------------------------------------------------------------
\* C15: getPlugin returns an operation if and only if the media type
\* matches a family and the algorithm is a member of that family.
Families ==
    { [patterns |-> {TypeJpg, TypeJpeg},
       members |-> {"jpegoptim", "jpegtran", "mozjpeg"}],
      [patterns |-> {TypePng},
       members |-> {"advpng", "optipng", "pngcrush", "pngout", "zopfli"}],
      [patterns |-> {TypeSvg, TypeSvgXml}, members |-> {"svgo"}],
      [patterns |-> {TypeGif}, members |-> {"giflossy", "gifsicle"}] }

C15_GetPlugin ==
    (query.kind = "getPlugin" /\ answer.done) =>
        (IsOperation(answer.value) <=>
            \E f \in Families :
               /\ \E pattern \in f.patterns : Test(pattern, query.fileType)
               /\ query.algorithm \in f.members)

C15_Witness ==
    /\ query.kind = "getPlugin"
    /\ answer.done
    /\ query.fileType = TypePng
    /\ query.algorithm = "zopfli"
    /\ answer.value = Plugin("imageminZopfli", "transparent: true")

\* ---- C16 ----------------------------------------------------------------
\* C16: without keep source the working path differs from the source path,
\* the steps write the working file and not the source file; with keep
\* source the working path is the source path.
C16_WorkingFile ==
    (query.kind = "construct" /\ answer.done /\ ~answer.value.threw) =>
        IF query.keepSource
        THEN answer.value.path = query.path
        ELSE /\ answer.value.path # query.path
             /\ answer.value.written = answer.value.path
             /\ answer.value.written # query.path

\* ---- C17 ----------------------------------------------------------------
\* C17: getSave is 0 when size equals originalSize and
\* 100 * (1 - size / originalSize) otherwise.
ClaimedSave(sz, original) ==
    IF original = 0 THEN MinusInfinity
    ELSE LET ratio == Number(sz, original)
             rest == Number(ratio.den - ratio.num, ratio.den)
         IN Number(100 * rest.num, rest.den)

C17_Savings ==
    (query.kind = "getSave" /\ answer.done) =>
        IF query.size = query.originalSize
        THEN SameNumber(answer.value, Number(0, 1))
        ELSE SameNumber(answer.value,
                        ClaimedSave(query.size, query.originalSize))

\* ---- C18 ----------------------------------------------------------------
\* C18: errors holds, in the order the steps ran, exactly one record for
\* each step that failed and none for a step that succeeded; it is never
\* longer than the list; a step adds at most one record and none is ever
\* removed.
FailedStep(i) == outcome[i].status = "failed"
ErrorAlgorithms == [k \in 1..Len(errors) |-> errors[k].algorithm]

ErrorsAreFailedSteps ==
    /\ ErrorAlgorithms = NamesOf(SelectSeq(ExecOrder, FailedStep))
    /\ Len(errors) <= Len(algorithms)

C18_OneErrorPerFailedStep ==
    /\ []ErrorsAreFailedSteps
    /\ [][/\ Len(errors') <= Len(errors) + 1
          /\ Len(errors') >= Len(errors)
          /\ SubSeq(errors', 1, Len(errors)) = errors]_vars

\* a complete run with two failed steps and a successful one
C18_Witness ==
    /\ chain = "end"
    /\ Len(errors) = 2
    /\ \E i \in 1..Len(algorithms) : outcome[i].status = "ok"

\* ---- C19 ----------------------------------------------------------------
\* C19: getCurrentAlgorithm reports the step that is executing, and none
\* before the first start event and after the run has finished.
C19_CurrentStepObserver ==
    /\ job.pc \in {"imagemin", "catch", "await"} =>
          getCurrentAlgorithm = StepOf(job.index)
    /\ (Count("start") = 0 \/ finished) => getCurrentAlgorithm = EmptyObject

\* ---- C20 ----------------------------------------------------------------
\* C20: when the copy of the source fails, no step starts and the failure
\* is reported through failed / errors, not thrown to the caller.
C20_CopyFailureReported ==
    (query.kind = "construct" /\ answer.done
     /\ ~query.keepSource /\ query.copyThrows) =>
        /\ ~answer.value.started
        /\ ~answer.value.threw
        /\ (answer.value.failed \/ answer.value.errors # <<>>)
====
